---- MODULE Spec2Model ----
(***************************************************************************)
(* layout2pdf (src/main.cpp): a line-oriented layout file is parsed into   *)
(* pages of styled lines, each page is laid out into a PDF content stream, *)
(* and the document is assembled with a cross-reference table.             *)
(*                                                                         *)
(* std::string values are TLA+ strings; the character at position i        *)
(* (1-based) of s is SubSeq(s, i, i).  A float is the integer number of    *)
(* quarters it holds (F(72) = 288 stands for 72.0f): every float the       *)
(* program computes from inputs within the bounds below is a multiple of   *)
(* 0.25 of small magnitude, which float arithmetic represents exactly.     *)
(***************************************************************************)
EXTENDS Integers, Sequences, FiniteSets, TLC

VARIABLES
    \* ParseLayoutFile
    input,                \* the lines std::getline has returned so far
    inPage, currentPage, pages,
    currentFontSize, currentR, currentG, currentB,
    currentAlign, currentBottomAnchor,
    \* BuildPageContent
    page, positioned, content,
    \* main
    pc, argc, inputReadable, outputWritable,
    objects, nextObj, offsets, pdf, xrefOffset,
    inOpened, outOpened, outFile, exitCode, errMsg

parserVars == <<input, inPage, currentPage, pages, currentFontSize, currentR,
                currentG, currentB, currentAlign, currentBottomAnchor>>
layoutVars == <<page, positioned, content>>
envVars    == <<argc, inputReadable, outputWritable>>
pdfVars    == <<objects, nextObj, offsets, pdf, xrefOffset>>
ioVars     == <<inOpened, outOpened, outFile, exitCode, errMsg>>
vars == <<parserVars, layoutVars, envVars, pdfVars, ioVars, pc>>

-----------------------------------------------------------------------------
(* Bounds of the model *)

\* lines read from the layout file in the line-by-line parser specification
MaxLines == 4
\* lines of a page handed to BuildPageContent in the layout specification
MaxPageLines == 3
\* pages handed to the document assembler
MaxPages == 3
\* command-line words, the program name included
MaxArgc == 3
\* lines of a layout file in the whole-program specification
MaxFileLines == 4

-----------------------------------------------------------------------------
(* Characters and strings *)

At(s, i) == SubSeq(s, i, i)

\* std::isspace in the "C" locale
IsSpace(c) == c \in {" ", "\t", "\n", "\r", "\f"}

Upper == "ABCDEFGHIJKLMNOPQRSTUVWXYZ"
Lower == "abcdefghijklmnopqrstuvwxyz"

\* std::tolower on one character
ToLowerChar(c) ==
    IF \E k \in 1..Len(Upper) : At(Upper, k) = c
    THEN At(Lower, CHOOSE k \in 1..Len(Upper) : At(Upper, k) = c)
    ELSE c

RECURSIVE ToLower(_)
ToLower(s) ==
    IF s = "" THEN "" ELSE ToLowerChar(At(s, 1)) \o ToLower(Tail(s))

\* index of the first non-space character at or after i (Len(s)+1 if none)
RECURSIVE TrimStart(_, _)
TrimStart(s, start) ==
    IF start <= Len(s) /\ IsSpace(At(s, start))
    THEN TrimStart(s, start + 1) ELSE start

\* `end` counts characters: the kept text is s[start .. end]
RECURSIVE TrimEnd(_, _, _)
TrimEnd(s, start, end) ==
    IF end >= start /\ IsSpace(At(s, end))
    THEN TrimEnd(s, start, end - 1) ELSE end

Trim(s) ==
    LET start == TrimStart(s, 1)
        end   == TrimEnd(s, start, Len(s))
    IN  SubSeq(s, start, end)

\* std::string::npos
npos == 0

\* s.find(pat): 1-based position of the first occurrence, npos if none
Find(s, pat) ==
    LET hits == { i \in 1..(Len(s) - Len(pat) + 1) :
                      SubSeq(s, i, i + Len(pat) - 1) = pat }
    IN  IF hits = {} THEN npos
        ELSE CHOOSE i \in hits : \A j \in hits : i <= j

\* the loop of SplitByComma: <<parts, current>> after the first i characters
RECURSIVE SplitLoop(_, _)
SplitLoop(s, i) ==
    IF i = 0 THEN << <<>>, "" >>
    ELSE LET prev == SplitLoop(s, i - 1)
             c == At(s, i)
         IN  IF c = ","
             THEN << Append(prev[1], Trim(prev[2])), "" >>
             ELSE << prev[1], prev[2] \o c >>

SplitByComma(s) ==
    LET done == SplitLoop(s, Len(s))
    IN  IF done[2] # "" THEN Append(done[1], Trim(done[2])) ELSE done[1]

Digits == "0123456789"
IsDigit(c) == \E k \in 1..10 : At(Digits, k) = c
DigitValue(c) == (CHOOSE k \in 1..10 : At(Digits, k) = c) - 1

\* value of the run of digits starting at i, continuing from acc
RECURSIVE AtoiDigits(_, _, _)
AtoiDigits(s, i, acc) ==
    IF i <= Len(s) /\ IsDigit(At(s, i))
    THEN AtoiDigits(s, i + 1, acc * 10 + DigitValue(At(s, i)))
    ELSE acc

\* std::atoi: leading whitespace, an optional sign, then digits; 0 if none
Atoi(s) ==
    LET i == TrimStart(s, 1)
        signed == i <= Len(s) /\ At(s, i) \in {"+", "-"}
        j == IF signed THEN i + 1 ELSE i
        v == AtoiDigits(s, j, 0)
    IN  IF signed /\ At(s, i) = "-" THEN 0 - v ELSE v

RECURSIVE EscapePdfString(_)
EscapePdfString(in) ==
    IF in = "" THEN ""
    ELSE LET c == At(in, 1)
         IN  (IF c \in {"(", ")", "\\"} THEN "\\" ELSE "") \o c
                 \o EscapePdfString(Tail(in))

\* the sequences over S of length at most n
SeqsUpTo(S, n) == UNION { [1..k -> S] : k \in 0..n }

-----------------------------------------------------------------------------
(* Floats as quarters *)

F(n) == n * 4
Half(q) == q \div 2      \* q / 2.0f, exact when q is even

\* color channel values 0.0f, 0.5f, 1.0f
Zero == F(0)
One  == F(1)
Mid  == 2

-----------------------------------------------------------------------------
(* Style resolution *)

ColorFromName(name) ==
    LET n == ToLower(Trim(name))
    IN  IF n = "black" THEN <<Zero, Zero, Zero>>
        ELSE IF n = "white" THEN <<One, One, One>>
        ELSE IF n = "red" THEN <<One, Zero, Zero>>
        ELSE IF n = "green" THEN <<Zero, One, Zero>>
        ELSE IF n = "blue" THEN <<Zero, Zero, One>>
        ELSE IF n = "gray" \/ n = "grey" THEN <<Mid, Mid, Mid>>
        ELSE <<Zero, Zero, Zero>>

AlignFromName(name) ==
    LET n == ToLower(Trim(name))
    IN  IF n = "center" THEN "ALIGN_CENTER"
        ELSE IF n = "right" THEN "ALIGN_RIGHT"
        ELSE "ALIGN_LEFT"

-----------------------------------------------------------------------------
(* ParseLayoutFile *)

DefaultFontSize == 12

\* the locals of ParseLayoutFile together with main's `pages`
ParserState ==
    [inPage |-> inPage, currentPage |-> currentPage, pages |-> pages,
     currentFontSize |-> currentFontSize,
     currentR |-> currentR, currentG |-> currentG, currentB |-> currentB,
     currentAlign |-> currentAlign,
     currentBottomAnchor |-> currentBottomAnchor]

\* the locals as declared, before the first line is read
InitParserState ==
    [inPage |-> FALSE, currentPage |-> <<>>, pages |-> <<>>,
     currentFontSize |-> DefaultFontSize,
     currentR |-> Zero, currentG |-> Zero, currentB |-> Zero,
     currentAlign |-> "ALIGN_LEFT",
     currentBottomAnchor |-> FALSE]

\* a LineSpec filled from the current style
NewLineSpec(p, text) ==
    [text |-> text, fontSize |-> p.currentFontSize,
     r |-> p.currentR, g |-> p.currentG, b |-> p.currentB,
     align |-> p.currentAlign, bottomAnchor |-> p.currentBottomAnchor]

\* BlankLine without the test for a comment marker
BlankLine_AlwaysSpacer(p, commentPos, beforeComment) ==
    IF p.inPage
    THEN [p EXCEPT !.currentPage = Append(@, NewLineSpec(p, ""))]
    ELSE p

\* an empty line: a spacer inside a page unless the line held a comment
BlankLine(p, commentPos, beforeComment) ==
    LET isPureComment == commentPos # npos /\ Trim(beforeComment) = ""
    IN  IF p.inPage /\ ~isPureComment
        THEN [p EXCEPT !.currentPage = Append(@, NewLineSpec(p, ""))]
        ELSE p

\* [/...]
ClosingTag(p) ==
    IF p.inPage
    THEN [p EXCEPT !.pages = Append(@, p.currentPage),
                   !.currentPage = <<>>,
                   !.inPage = FALSE]
    ELSE p

\* UpdateStyle that keeps the style when a directive has no parameters and
\* keeps a field whose part is absent
UpdateStyle_Sticky(p, params) ==
    LET parts == SplitByComma(params)
        n     == IF Len(parts) >= 1 THEN Atoi(parts[1]) ELSE 0
        rgb   == IF Len(parts) >= 2 THEN ColorFromName(parts[2])
                 ELSE <<p.currentR, p.currentG, p.currentB>>
    IN  [p EXCEPT !.currentFontSize = IF n > 0 THEN n ELSE @,
                  !.currentR = rgb[1], !.currentG = rgb[2],
                  !.currentB = rgb[3],
                  !.currentAlign = IF Len(parts) >= 3
                                   THEN AlignFromName(parts[3]) ELSE @,
                  !.currentBottomAnchor =
                      IF Len(parts) >= 4
                      THEN ToLower(Trim(parts[4])) = "bottom" ELSE @]

\* the style after a directive with parameters `params`
UpdateStyle(p, params) ==
    IF params # ""
    THEN LET parts == SplitByComma(params)
             size  == IF Len(parts) >= 1
                      THEN LET n == Atoi(parts[1])
                           IN  IF n <= 0 THEN DefaultFontSize ELSE n
                      ELSE p.currentFontSize
             rgb   == IF Len(parts) >= 2 THEN ColorFromName(parts[2])
                      ELSE ColorFromName("black")
             al    == IF Len(parts) >= 3 THEN AlignFromName(parts[3])
                      ELSE "ALIGN_LEFT"
             bot   == IF Len(parts) >= 4
                      THEN ToLower(Trim(parts[4])) = "bottom"
                      ELSE FALSE
         IN  [p EXCEPT !.currentFontSize = size,
                       !.currentR = rgb[1], !.currentG = rgb[2],
                       !.currentB = rgb[3],
                       !.currentAlign = al,
                       !.currentBottomAnchor = bot]
    ELSE LET rgb == ColorFromName("black")
         IN  [p EXCEPT !.currentFontSize = DefaultFontSize,
                       !.currentR = rgb[1], !.currentG = rgb[2],
                       !.currentB = rgb[3],
                       !.currentAlign = "ALIGN_LEFT",
                       !.currentBottomAnchor = FALSE]

\* OpeningTag that enters the page before it looks for "]"
OpeningTag_EnterFirst(p, line) ==
    LET closePos == Find(line, "]")
        q == IF ~p.inPage
             THEN [p EXCEPT !.inPage = TRUE, !.currentPage = <<>>]
             ELSE p
    IN  IF closePos = npos THEN q
        ELSE UpdateStyle(q, IF closePos < Len(line)
                            THEN Trim(SubSeq(line, closePos + 1, Len(line)))
                            ELSE "")

\* [label] size, color, align, bottom
OpeningTag(p, line) ==
    LET closePos == Find(line, "]")
    IN  IF closePos = npos THEN p
        ELSE LET params == IF closePos < Len(line)
                           THEN Trim(SubSeq(line, closePos + 1, Len(line)))
                           ELSE ""
                 q == IF ~p.inPage
                      THEN [p EXCEPT !.inPage = TRUE, !.currentPage = <<>>]
                      ELSE p
             IN  UpdateStyle(q, params)

\* a regular text line
TextLine(p, line) ==
    IF p.inPage
    THEN [p EXCEPT !.currentPage = Append(@, NewLineSpec(p, line))]
    ELSE p

\* the text of a physical line that the parser looks at
BeforeComment(raw) ==
    LET commentPos == Find(raw, "//")
    IN  IF commentPos = npos THEN raw ELSE SubSeq(raw, 1, commentPos - 1)

\* one iteration of the getline loop
ParseLine(p, raw) ==
    LET commentPos    == Find(raw, "//")
        beforeComment == BeforeComment(raw)
        line          == Trim(beforeComment)
    IN  IF line = "" THEN BlankLine(p, commentPos, beforeComment)
        ELSE IF Len(line) > 0 /\ At(line, 1) = "["
        THEN IF Len(line) > 1 /\ At(line, 2) = "/"
             THEN ClosingTag(p)
             ELSE OpeningTag(p, line)
        ELSE TextLine(p, line)

\* EndOfInput without the test for an empty accumulator
EndOfInput_KeepEmpty(p) ==
    IF p.inPage THEN [p EXCEPT !.pages = Append(@, p.currentPage)] ELSE p

\* after the loop: an unterminated page is kept when it has lines
EndOfInput(p) ==
    IF p.inPage /\ p.currentPage # <<>>
    THEN [p EXCEPT !.pages = Append(@, p.currentPage)]
    ELSE p

\* the whole loop over the lines of a file, then the end of input
RECURSIVE ParseLines(_, _)
ParseLines(p, lines) ==
    IF lines = <<>> THEN p
    ELSE ParseLines(ParseLine(p, Head(lines)), Tail(lines))

ParseLayoutFile(lines) == EndOfInput(ParseLines(InitParserState, lines)).pages

SetParser(q) ==
    /\ inPage' = q.inPage
    /\ currentPage' = q.currentPage
    /\ pages' = q.pages
    /\ currentFontSize' = q.currentFontSize
    /\ currentR' = q.currentR
    /\ currentG' = q.currentG
    /\ currentB' = q.currentB
    /\ currentAlign' = q.currentAlign
    /\ currentBottomAnchor' = q.currentBottomAnchor

\* physical lines the layout file may hold
Lines ==
    { "",
      "  // note",
      "[p1] 14, red, center",
      "[s]9,GREY, Right ,Bottom",
      "[p2]",
      "[/p1]",
      "[bad",
      "Hello",
      " Hi (x) // c",
      "[t] 0, nocolor",
      "[/x] 20, blue",
      "[// c]" }

\* std::getline returned a line
ReadLine ==
    /\ pc = "reading"
    /\ Len(input) < MaxLines
    /\ \E raw \in Lines :
          /\ input' = Append(input, raw)
          /\ SetParser(ParseLine(ParserState, raw))
    /\ UNCHANGED <<layoutVars, envVars, pdfVars, ioVars, pc>>

\* std::getline failed: the loop ends and ParseLayoutFile returns true
EndOfFile ==
    /\ pc = "reading"
    /\ SetParser(EndOfInput(ParserState))
    /\ pc' = "parsed"
    /\ UNCHANGED <<input, layoutVars, envVars, pdfVars, ioVars>>

InitParserVars ==
    /\ input = <<>>
    /\ inPage = FALSE /\ currentPage = <<>> /\ pages = <<>>
    /\ currentFontSize = DefaultFontSize
    /\ currentR = Zero /\ currentG = Zero /\ currentB = Zero
    /\ currentAlign = "ALIGN_LEFT"
    /\ currentBottomAnchor = FALSE

InitLayoutVars == page = <<>> /\ positioned = <<>> /\ content = ""
InitPdfVars ==
    /\ objects = <<>> /\ nextObj = 1 /\ offsets = <<>>
    /\ pdf = "" /\ xrefOffset = 0
InitIoVars ==
    /\ outOpened = FALSE /\ outFile = ""
    /\ exitCode = -1 /\ errMsg = ""

\* ParseLayoutFile on an opened file, line by line
InitParse ==
    /\ InitParserVars /\ InitLayoutVars /\ InitPdfVars /\ InitIoVars
    /\ argc = 2 /\ inputReadable = TRUE /\ outputWritable = TRUE
    /\ inOpened = TRUE
    /\ pc = "reading"

NextParse == ReadLine \/ EndOfFile

SpecParse == InitParse /\ [][NextParse]_vars

-----------------------------------------------------------------------------
(* Number formatting of std::ostream *)

\* operator<< on a non-negative int or long
RECURSIVE NatToStr(_)
NatToStr(n) ==
    IF n < 10 THEN At(Digits, n + 1)
    ELSE NatToStr(n \div 10) \o At(Digits, (n % 10) + 1)

IntToStr(n) == IF n < 0 THEN "-" \o NatToStr(0 - n) ELSE NatToStr(n)

\* operator<< on a float, default precision 6, for a multiple of 0.25 below
\* 10000 in magnitude: such a value has at most six significant digits and
\* is printed exactly, without trailing zeros
FormatFloat(q) ==
    LET a    == IF q < 0 THEN 0 - q ELSE q
        frac == a % 4
    IN  (IF q < 0 THEN "-" ELSE "") \o NatToStr(a \div 4)
            \o (IF frac = 0 THEN ""
                ELSE IF frac = 1 THEN ".25"
                ELSE IF frac = 2 THEN ".5"
                ELSE ".75")

\* std::setw(10) << std::setfill('0') << n, for n >= 0
RECURSIVE PadLeft(_, _)
PadLeft(str, width) ==
    IF Len(str) >= width THEN str ELSE PadLeft("0" \o str, width)

-----------------------------------------------------------------------------
(* BuildPageContent *)

pageWidth     == F(612)
leftMargin    == F(72)
rightMargin   == F(72)
topMarginY    == F(750)
bottomMarginY == F(72)
usableWidth   == pageWidth - leftMargin - rightMargin

\* approxCharWidth * text.size(), with approxCharWidth = fontSize * 0.5f
TextWidth(ls) == Half(F(ls.fontSize)) * Len(ls.text)

\* computeX without the clamp of right-aligned text
computeX_NoRightClamp(ls, textWidth) ==
    IF ls.align = "ALIGN_CENTER"
    THEN LET x == Half(pageWidth - textWidth)
         IN  IF x < leftMargin THEN leftMargin ELSE x
    ELSE IF ls.align = "ALIGN_RIGHT"
    THEN pageWidth - rightMargin - textWidth
    ELSE leftMargin

computeX(ls, textWidth) ==
    IF ls.align = "ALIGN_CENTER"
    THEN LET x == Half(pageWidth - textWidth)
         IN  IF x < leftMargin THEN leftMargin ELSE x
    ELSE IF ls.align = "ALIGN_RIGHT"
    THEN LET x == pageWidth - rightMargin - textWidth
         IN  IF x < leftMargin THEN leftMargin ELSE x
    ELSE leftMargin

IsTop(ls) == ~ls.bottomAnchor
IsBottom(ls) == ls.bottomAnchor

\* the top lines from position i on, the first of them at yTop
RECURSIVE LayoutTop(_, _, _)
LayoutTop(topLines, i, yTop) ==
    IF i > Len(topLines) THEN <<>>
    ELSE LET ls == topLines[i]
         IN  <<[ls |-> ls, x |-> computeX(ls, TextWidth(ls)), y |-> yTop]>>
                 \o LayoutTop(topLines, i + 1, yTop - F(ls.fontSize + 4))

\* the bottom lines from position i down to the first, line i at yBottom
RECURSIVE LayoutBottom(_, _, _)
LayoutBottom(bottomLines, i, yBottom) ==
    IF i < 1 THEN <<>>
    ELSE LET ls == bottomLines[i]
         IN  <<[ls |-> ls, x |-> computeX(ls, TextWidth(ls)), y |-> yBottom]>>
                 \o LayoutBottom(bottomLines, i - 1,
                                 yBottom + F(ls.fontSize + 4))

\* PositionLines that stacks the bottom lines upwards in declaration order
PositionLines_DeclarationOrder(pg) ==
    LET topLines    == SelectSeq(pg, IsTop)
        bottomLines == SelectSeq(pg, IsBottom)
        k           == Len(bottomLines)
        reversed    == [j \in 1..k |-> bottomLines[k + 1 - j]]
    IN  LayoutTop(topLines, 1, topMarginY)
            \o LayoutBottom(reversed, k, bottomMarginY)

\* the vector `positioned`
PositionLines(pg) ==
    LET topLines    == SelectSeq(pg, IsTop)
        bottomLines == SelectSeq(pg, IsBottom)
    IN  LayoutTop(topLines, 1, topMarginY)
            \o LayoutBottom(bottomLines, Len(bottomLines), bottomMarginY)

\* the operators of one positioned line
EmitLine(pl) ==
    "/F1 " \o IntToStr(pl.ls.fontSize) \o " Tf\n"
    \o FormatFloat(pl.ls.r) \o " " \o FormatFloat(pl.ls.g) \o " "
    \o FormatFloat(pl.ls.b) \o " rg\n"
    \o "1 0 0 1 " \o FormatFloat(pl.x) \o " " \o FormatFloat(pl.y) \o " Tm\n"
    \o "(" \o EscapePdfString(pl.ls.text) \o ") Tj\n"

RECURSIVE EmitLines(_)
EmitLines(pls) ==
    IF pls = <<>> THEN "" ELSE EmitLine(Head(pls)) \o EmitLines(Tail(pls))

EmitContent(pls) == "BT\n" \o EmitLines(pls) \o "ET\n"

BuildPageContent(pg) == EmitContent(PositionLines(pg))

\* LineSpecs as the parser produces them: texts and font sizes below, at,
\* and above the usable width, in every alignment and anchor
LayoutShapes ==
    { <<"Hello", 14>>, <<"Footer", 156>>, <<"Hello", 200>> }

LayoutLineSpecs ==
    { [text |-> t[1], fontSize |-> t[2], r |-> Zero, g |-> Zero, b |-> Zero,
       align |-> a, bottomAnchor |-> bot] :
         t \in LayoutShapes,
         a \in {"ALIGN_LEFT", "ALIGN_CENTER", "ALIGN_RIGHT"},
         bot \in BOOLEAN }

\* the partition and the two layout loops
LayoutPage ==
    /\ pc = "layout"
    /\ positioned' = PositionLines(page)
    /\ pc' = "emit"
    /\ UNCHANGED <<page, content, parserVars, envVars, pdfVars, ioVars>>

\* the emit loop
EmitPage ==
    /\ pc = "emit"
    /\ content' = EmitContent(positioned)
    /\ pc' = "built"
    /\ UNCHANGED <<page, positioned, parserVars, envVars, pdfVars, ioVars>>

\* BuildPageContent on one page
InitLayout ==
    /\ InitParserVars /\ InitPdfVars /\ InitIoVars
    /\ argc = 2 /\ inputReadable = TRUE /\ outputWritable = TRUE
    /\ inOpened = TRUE
    /\ page \in SeqsUpTo(LayoutLineSpecs, MaxPageLines)
    /\ positioned = <<>> /\ content = ""
    /\ pc = "layout"

NextLayout == LayoutPage \/ EmitPage

SpecLayout == InitLayout /\ [][NextLayout]_vars

-----------------------------------------------------------------------------
(* main: the document assembler *)

firstPageObj == 4

\* " 4 0 R 5 0 R ...": the Kids entries for page objects from..last
RECURSIVE KidsRefs(_, _)
KidsRefs(from, last) ==
    IF from > last THEN ""
    ELSE " " \o IntToStr(from) \o " 0 R" \o KidsRefs(from + 1, last)

CatalogObject ==
    "1 0 obj\n" \o "<< /Type /Catalog /Pages 2 0 R >>\n" \o "endobj\n"

PagesObject(numPages) ==
    "2 0 obj\n" \o "<< /Type /Pages /Kids ["
    \o KidsRefs(firstPageObj, firstPageObj + numPages - 1)
    \o " ] /Count " \o IntToStr(numPages) \o " >>\n" \o "endobj\n"

FontObject ==
    "3 0 obj\n"
    \o "<< /Type /Font /Subtype /Type1 /BaseFont /Helvetica >>\n"
    \o "endobj\n"

PageObject(pageObjNum, contentObjNum) ==
    IntToStr(pageObjNum) \o " 0 obj\n"
    \o "<< /Type /Page\n"
    \o "   /Parent 2 0 R\n"
    \o "   /MediaBox [0 0 612 792]\n"
    \o "   /Resources << /Font << /F1 3 0 R >> >>\n"
    \o "   /Contents " \o IntToStr(contentObjNum) \o " 0 R\n"
    \o ">>\n"
    \o "endobj\n"

ContentObject(contentObjNum, pg) ==
    LET text == BuildPageContent(pg)
    IN  IntToStr(contentObjNum) \o " 0 obj\n"
        \o "<< /Length " \o IntToStr(Len(text)) \o " >>\n"
        \o "stream\n"
        \o text
        \o "\nendstream\n"
        \o "endobj\n"

\* BuildObjectList whose page objects all name the first content object
BuildObjectList_SharedContent(pp) ==
    LET numPages == Len(pp)
        firstContentObj == firstPageObj + numPages
    IN  <<CatalogObject, PagesObject(numPages), FontObject>>
        \o [k \in 1..numPages |->
               PageObject(firstPageObj + (k - 1), firstContentObj)]
        \o [k \in 1..numPages |->
               ContentObject(firstContentObj + (k - 1), pp[k])]

\* the vector `objects` without its dummy entry 0
BuildObjectList(pp) ==
    LET numPages == Len(pp)
        firstContentObj == firstPageObj + numPages
    IN  <<CatalogObject, PagesObject(numPages), FontObject>>
        \o [k \in 1..numPages |->
               PageObject(firstPageObj + (k - 1), firstContentObj + (k - 1))]
        \o [k \in 1..numPages |->
               ContentObject(firstContentObj + (k - 1), pp[k])]

\* the version line and the comment of four bytes above 127 (E2 E3 CF D3),
\* each written here as one "#"
PdfHeader == "%PDF-1.4\n" \o "%####\n"

RECURSIVE XrefEntries(_, _)
XrefEntries(offs, k) ==
    IF k > Len(offs) THEN ""
    ELSE PadLeft(IntToStr(offs[k]), 10) \o " 00000 n \n"
             \o XrefEntries(offs, k + 1)

XrefTable(offs) ==
    "xref\n"
    \o "0 " \o IntToStr(Len(offs) + 1) \o "\n"
    \o "0000000000 65535 f \n"
    \o XrefEntries(offs, 1)

Trailer(numObjects, xref) ==
    "trailer\n"
    \o "<< /Size " \o IntToStr(numObjects + 1) \o " /Root 1 0 R >>\n"
    \o "startxref\n"
    \o IntToStr(xref) \o "\n"
    \o "%%EOF\n"

\* CheckArgs that tests argc < 1
CheckArgs_OffByOne ==
    /\ pc = "start"
    /\ IF argc < 1
       THEN /\ errMsg' = "Usage: layout2pdf <filename>\n"
            /\ exitCode' = 1
            /\ pc' = "exit"
       ELSE /\ pc' = "open"
            /\ UNCHANGED <<errMsg, exitCode>>
    /\ UNCHANGED <<parserVars, layoutVars, envVars, pdfVars,
                   inOpened, outOpened, outFile>>

\* argc < 2: usage error
CheckArgs ==
    /\ pc = "start"
    /\ IF argc < 2
       THEN /\ errMsg' = "Usage: layout2pdf <filename>\n"
            /\ exitCode' = 1
            /\ pc' = "exit"
       ELSE /\ pc' = "open"
            /\ UNCHANGED <<errMsg, exitCode>>
    /\ UNCHANGED <<parserVars, layoutVars, envVars, pdfVars,
                   inOpened, outOpened, outFile>>

\* physical lines of the layout files of the whole-program specification
FileLines ==
    { "[p] 14, red, center", "Hello", "[f]9,grey,right,bottom", "[/p]" }

\* ParseLayoutFile: the file cannot be opened, or all its lines are parsed
ParseFile ==
    /\ pc = "open"
    /\ IF ~inputReadable
       THEN /\ errMsg' = "Failed to open layout file: "
            /\ exitCode' = 1
            /\ pc' = "exit"
            /\ UNCHANGED <<parserVars, inOpened>>
       ELSE /\ inOpened' = TRUE
            /\ \E lines \in SeqsUpTo(FileLines, MaxFileLines) :
                  /\ input' = lines
                  /\ SetParser(EndOfInput(ParseLines(ParserState, lines)))
            /\ pc' = "parsed"
            /\ UNCHANGED <<errMsg, exitCode>>
    /\ UNCHANGED <<layoutVars, envVars, pdfVars, outOpened, outFile>>

\* pages.empty()
CheckPages ==
    /\ pc = "parsed"
    /\ IF pages = <<>>
       THEN /\ errMsg' = "No pages parsed from layout file.\n"
            /\ exitCode' = 1
            /\ pc' = "exit"
       ELSE /\ pc' = "build"
            /\ UNCHANGED <<errMsg, exitCode>>
    /\ UNCHANGED <<parserVars, layoutVars, envVars, pdfVars,
                   inOpened, outOpened, outFile>>

\* the catalog, the page tree, the font, the pages, the content streams
BuildObjects ==
    /\ pc = "build"
    /\ objects' = BuildObjectList(pages)
    /\ pc' = "header"
    /\ UNCHANGED <<nextObj, offsets, pdf, xrefOffset,
                   parserVars, layoutVars, envVars, ioVars>>

\* the two header lines; `offsets` is created zero-filled
WriteHeader ==
    /\ pc = "header"
    /\ pdf' = PdfHeader
    /\ offsets' = [k \in 1..Len(objects) |-> 0]
    /\ nextObj' = 1
    /\ pc' = "objects"
    /\ UNCHANGED <<objects, xrefOffset,
                   parserVars, layoutVars, envVars, ioVars>>

\* WriteObject that records tellp() after the object is written
WriteObject_OffsetAfter ==
    /\ pc = "objects"
    /\ nextObj <= Len(objects)
    /\ pdf' = pdf \o objects[nextObj]
    /\ offsets' = [offsets EXCEPT ![nextObj] = Len(pdf')]
    /\ nextObj' = nextObj + 1
    /\ UNCHANGED <<objects, xrefOffset, pc,
                   parserVars, layoutVars, envVars, ioVars>>

\* one iteration of the loop that records tellp() and writes the object
WriteObject ==
    /\ pc = "objects"
    /\ nextObj <= Len(objects)
    /\ offsets' = [offsets EXCEPT ![nextObj] = Len(pdf)]
    /\ pdf' = pdf \o objects[nextObj]
    /\ nextObj' = nextObj + 1
    /\ UNCHANGED <<objects, xrefOffset, pc,
                   parserVars, layoutVars, envVars, ioVars>>

\* tellp() again, then the cross-reference table
WriteXref ==
    /\ pc = "objects"
    /\ nextObj > Len(objects)
    /\ xrefOffset' = Len(pdf)
    /\ pdf' = pdf \o XrefTable(offsets)
    /\ pc' = "trailer"
    /\ UNCHANGED <<objects, nextObj, offsets,
                   parserVars, layoutVars, envVars, ioVars>>

WriteTrailer ==
    /\ pc = "trailer"
    /\ pdf' = pdf \o Trailer(Len(objects), xrefOffset)
    /\ pc' = "write"
    /\ UNCHANGED <<objects, nextObj, offsets, xrefOffset,
                   parserVars, layoutVars, envVars, ioVars>>

\* WriteOutput that does not test the stream after opening it
WriteOutput_Unchecked ==
    /\ pc = "write"
    /\ outOpened' = outputWritable
    /\ outFile' = IF outputWritable THEN pdf ELSE ""
    /\ exitCode' = 0
    /\ pc' = "exit"
    /\ UNCHANGED <<errMsg, parserVars, layoutVars, envVars, pdfVars,
                   inOpened>>

\* the output file is opened and the whole buffer written
WriteOutput ==
    /\ pc = "write"
    /\ IF ~outputWritable
       THEN /\ errMsg' = "Failed to open output PDF: "
            /\ exitCode' = 1
            /\ UNCHANGED <<outOpened, outFile>>
       ELSE /\ outOpened' = TRUE
            /\ outFile' = pdf
            /\ exitCode' = 0
            /\ UNCHANGED errMsg
    /\ pc' = "exit"
    /\ UNCHANGED <<parserVars, layoutVars, envVars, pdfVars, inOpened>>

\* the program as started: its arguments and the two files' accessibility
Init ==
    /\ InitParserVars /\ InitLayoutVars /\ InitPdfVars /\ InitIoVars
    /\ inOpened = FALSE
    /\ argc \in 1..MaxArgc
    /\ inputReadable \in BOOLEAN
    /\ outputWritable \in BOOLEAN
    /\ pc = "start"

Next ==
    \/ CheckArgs \/ ParseFile \/ CheckPages
    \/ BuildObjects \/ WriteHeader \/ WriteObject \/ WriteXref
    \/ WriteTrailer \/ WriteOutput

Spec == Init /\ [][Next]_vars

\* one-page layout files whose pages the assembler is run on
SamplePageFiles ==
    { <<"[p]", "[/p]">>,
      <<"[p] 14, red, center", "Hello">>,
      <<"[p]", "a(b)\\c", "", "[f] 9,grey,right,bottom", "Foot">>,
      <<"[p] 200,blue,right", "Hello", "[f] 156,white,center,bottom",
        "Footer", "[g] 10,green,left,bottom", "x">> }

SamplePages == { ParseLayoutFile(f)[1] : f \in SamplePageFiles }

\* the assembler on a parsed, non-empty page list
InitPdf ==
    /\ input = <<>> /\ inPage = FALSE /\ currentPage = <<>>
    /\ pages \in SeqsUpTo(SamplePages, MaxPages) \ {<<>>}
    /\ currentFontSize = DefaultFontSize
    /\ currentR = Zero /\ currentG = Zero /\ currentB = Zero
    /\ currentAlign = "ALIGN_LEFT" /\ currentBottomAnchor = FALSE
    /\ InitLayoutVars /\ InitPdfVars /\ InitIoVars
    /\ argc = 2 /\ inputReadable = TRUE /\ outputWritable = TRUE
    /\ inOpened = TRUE
    /\ pc = "build"

NextPdf ==
    BuildObjects \/ WriteHeader \/ WriteObject \/ WriteXref \/ WriteTrailer

SpecPdf == InitPdf /\ [][NextPdf]_vars


-----------------------------------------------------------------------------
(* Properties of ParseLayoutFile *)

\* the line the last ReadLine step consumed
LastRaw == input[Len(input)]

\* a step of the getline loop that consumed one more line
ReadStep == Len(input') = Len(input) + 1

\* the line as the directives are recognised on it
TrimmedLine(raw) == Trim(BeforeComment(raw))

HasCommentMarker(raw) == Find(raw, "//") # npos

IsClosingDirective(raw) ==
    LET l == TrimmedLine(raw) IN Len(l) >= 2 /\ SubSeq(l, 1, 2) = "[/"

IsBracketLine(raw) ==
    LET l == TrimmedLine(raw)
    IN  Len(l) >= 1 /\ At(l, 1) = "[" /\ ~IsClosingDirective(raw)

IsOpeningDirective(raw) ==
    IsBracketLine(raw) /\ Find(TrimmedLine(raw), "]") # npos

IsMalformedDirective(raw) ==
    IsBracketLine(raw) /\ Find(TrimmedLine(raw), "]") = npos

\* everything after the first "]" of a well-formed directive, trimmed
ParamsOf(raw) ==
    LET l == TrimmedLine(raw)
    IN  Trim(SubSeq(l, Find(l, "]") + 1, Len(l)))

\* the in-page flag after the first k lines, from the directives alone
RECURSIVE InsideAfter(_, _)
InsideAfter(lines, k) ==
    IF k = 0 THEN FALSE
    ELSE IF IsOpeningDirective(lines[k]) THEN TRUE
    ELSE IF IsClosingDirective(lines[k]) THEN FALSE
    ELSE InsideAfter(lines, k - 1)

\* closing directives met while inside a page
ClosesInsidePage(lines) ==
    Cardinality({ k \in 1..Len(lines) :
                    IsClosingDirective(lines[k]) /\ InsideAfter(lines, k - 1) })

\* C1: a page is appended exactly (i) by a closing directive processed inside
\* a page, which appends the accumulated lines (possibly none) and leaves the
\* page, and (ii) at end of input inside a page with a non-empty accumulator;
\* so the number of pages is the number of closing directives met inside a
\* page, plus one for a non-empty unterminated last page.
C1_PagesAppended ==
    /\ [](Len(pages) = ClosesInsidePage(input)
                       + (IF pc = "parsed" /\ inPage /\ currentPage # <<>>
                          THEN 1 ELSE 0))
    /\ [][LET closing == ReadStep /\ inPage /\ IsClosingDirective(LastRaw')
              atEnd   == pc = "reading" /\ pc' = "parsed"
                         /\ inPage /\ currentPage # <<>>
          IN  /\ closing => pages' = Append(pages, currentPage) /\ ~inPage'
              /\ atEnd => pages' = Append(pages, currentPage)
              /\ ~(closing \/ atEnd) => pages' = pages]_vars

\* an empty page closed by a directive, a second page kept at end of input
C1_Witness ==
    /\ pc = "parsed" /\ Len(pages) = 2
    /\ pages[1] = <<>> /\ pages[2] # <<>>
    /\ ClosesInsidePage(input) = 1

RECURSIVE Flatten(_)
Flatten(pp) == IF pp = <<>> THEN <<>> ELSE Head(pp) \o Flatten(Tail(pp))

\* every LineSpec created so far, in creation order
AllLines ==
    Flatten(pages) \o (IF pc = "reading" THEN currentPage ELSE <<>>)

\* the style a directive's parameters stand for, as the claim words it
ClaimedStyle(params) ==
    LET parts == SplitByComma(params)
        black == <<Zero, Zero, Zero>>
        rgb   == IF params # "" /\ Len(parts) >= 2
                 THEN ColorFromName(parts[2]) ELSE black
    IN  [fontSize |-> IF params # "" /\ Len(parts) >= 1 /\ Atoi(parts[1]) > 0
                      THEN Atoi(parts[1]) ELSE 12,
         r |-> rgb[1], g |-> rgb[2], b |-> rgb[3],
         align |-> IF params # "" /\ Len(parts) >= 3
                   THEN AlignFromName(parts[3]) ELSE "ALIGN_LEFT",
         bottomAnchor |-> params # "" /\ Len(parts) >= 4
                          /\ ToLower(parts[4]) = "bottom"]

StyleOf(ls) ==
    [fontSize |-> ls.fontSize, r |-> ls.r, g |-> ls.g, b |-> ls.b,
     align |-> ls.align, bottomAnchor |-> ls.bottomAnchor]

\* the nearest well-formed opening/style directive among the lines read
NearestDirective(lines) ==
    lines[CHOOSE k \in 1..Len(lines) :
            /\ IsOpeningDirective(lines[k])
            /\ \A j \in (k + 1)..Len(lines) : ~IsOpeningDirective(lines[j])]

\* C2: a LineSpec is created with the style that the parameters of the
\* nearest preceding well-formed opening/style directive stand for, taken
\* alone, and no later line changes a LineSpec that exists.
C2_StyleSnapshot ==
    [][/\ Len(AllLines') >= Len(AllLines)
       /\ SubSeq(AllLines', 1, Len(AllLines)) = AllLines
       /\ \A k \in (Len(AllLines) + 1)..Len(AllLines') :
             /\ \E j \in 1..Len(input) : IsOpeningDirective(input[j])
             /\ StyleOf(AllLines'[k])
                    = ClaimedStyle(ParamsOf(NearestDirective(input)))]_vars

\* a default-styled line after a directive without parameters that follows
\* a styled one, and a line styled by a four-parameter directive
C2_Witness ==
    /\ Len(AllLines) >= 2
    /\ \E k \in 2..Len(input) :
          /\ IsOpeningDirective(input[k]) /\ ParamsOf(input[k]) = ""
          /\ \E j \in 1..(k - 1) :
                IsOpeningDirective(input[j]) /\ ParamsOf(input[j]) # ""
    /\ AllLines[1].fontSize # 12
    /\ AllLines[Len(AllLines)].fontSize = 12
    /\ AllLines[Len(AllLines)].r = Zero

\* the parser state a line can change
ParserFrame ==
    <<inPage, currentPage, pages, currentFontSize, currentR, currentG,
      currentB, currentAlign, currentBottomAnchor>>

\* C5: a line whose trimmed text starts with "[" (not "[/") and holds no "]"
\* changes neither the in-page flag, the accumulated lines, the page list
\* nor any of the current style fields.
C5_MalformedSkipped ==
    [][(ReadStep /\ IsMalformedDirective(LastRaw'))
          => ParserFrame' = ParserFrame]_vars

\* a malformed directive read outside a page, after a styled page
C5_Witness ==
    /\ input # <<>> /\ IsMalformedDirective(LastRaw)
    /\ ~inPage /\ pages # <<>>
    /\ currentFontSize # 12

\* C6: a line that is blank before any "//" is ignored when it holds the
\* marker; without the marker it appends exactly one spacer with empty text
\* and the current style inside a page, and nothing outside a page.
C6_BlankLines ==
    [][(ReadStep /\ TrimmedLine(LastRaw') = "")
          => IF ~HasCommentMarker(LastRaw') /\ inPage
             THEN /\ currentPage' =
                       Append(currentPage,
                              [text |-> "", fontSize |-> currentFontSize,
                               r |-> currentR, g |-> currentG,
                               b |-> currentB, align |-> currentAlign,
                               bottomAnchor |-> currentBottomAnchor])
                  /\ <<inPage, pages, currentFontSize, currentR, currentG,
                       currentB, currentAlign, currentBottomAnchor>>'
                       = <<inPage, pages, currentFontSize, currentR,
                           currentG, currentB, currentAlign,
                           currentBottomAnchor>>
             ELSE ParserFrame' = ParserFrame]_vars

\* inside one page: a comment-only line was skipped and a blank line gave
\* a spacer in a non-default style
C6_Witness ==
    /\ inPage /\ Len(input) >= 3
    /\ \E k \in 2..(Len(input) - 1) :
          /\ HasCommentMarker(input[k]) /\ TrimmedLine(input[k]) = ""
          /\ InsideAfter(input, k - 1)
    /\ LastRaw = ""
    /\ Len(currentPage) = 1
    /\ currentPage[1].text = "" /\ currentPage[1].fontSize = 14

-----------------------------------------------------------------------------
(* Properties of BuildPageContent *)

\* the bottom-anchored lines of the page, in declaration order
BottomOf(pg) == SelectSeq(pg, IsBottom)

RECURSIVE LeadingFrom(_, _)
\* sum over j >= i of fontSize(B[j]) + 4
LeadingFrom(B, i) ==
    IF i > Len(B) THEN 0 ELSE (B[i].fontSize + 4) + LeadingFrom(B, i + 1)

\* the entry of `positioned` that holds the i-th bottom-anchored line
BottomEntry(i) ==
    LET k == Len(BottomOf(page))
    IN  positioned[(Len(page) - k) + (k - i + 1)]

\* C7: with b1..bk the bottom-anchored lines in declaration order, bk is at
\* y = 72 and bi at 72 + the sum over j > i of fontSize(bj) + 4, whatever
\* top-anchored lines lie between them; a later one is strictly lower.
C7_BottomStacking ==
    pc \in {"emit", "built"} =>
        LET B == BottomOf(page)
        IN  /\ \A i \in 1..Len(B) :
                  /\ BottomEntry(i).ls = B[i]
                  /\ BottomEntry(i).y = F(72 + LeadingFrom(B, i + 1))
            /\ \A i, j \in 1..Len(B) :
                  i < j => BottomEntry(j).y < BottomEntry(i).y

\* two bottom-anchored lines of different sizes around a top-anchored line
C7_Witness ==
    /\ pc = "built" /\ Len(page) = 3
    /\ page[1].bottomAnchor /\ ~page[2].bottomAnchor /\ page[3].bottomAnchor
    /\ page[1].fontSize = 14 /\ page[3].fontSize = 156
    /\ positioned[2].y = F(72) /\ positioned[3].y = F(72 + 160)

Max(a, b) == IF a >= b THEN a ELSE b

\* C10: with textWidth = fontSize * 0.5 * characterCount, x is 72 for left,
\* max(72, (612 - textWidth) / 2) for center, max(72, 540 - textWidth) for
\* right; so x >= 72, the clamp acts exactly when textWidth > 468, and a
\* centered 5-character line at size 14 is at 288.5 (1154 quarters).
C10_XCoordinate ==
    pc \in {"emit", "built"} =>
        \A k \in 1..Len(positioned) :
            LET pl == positioned[k]
                tw == 2 * pl.ls.fontSize * Len(pl.ls.text)
                c  == (F(612) - tw) \div 2
                r  == F(612 - 72) - tw
            IN  /\ pl.ls.align = "ALIGN_LEFT" => pl.x = F(72)
                /\ pl.ls.align = "ALIGN_CENTER" => pl.x = Max(F(72), c)
                /\ pl.ls.align = "ALIGN_RIGHT" => pl.x = Max(F(72), r)
                /\ pl.x >= F(72)
                /\ pl.ls.align = "ALIGN_CENTER" =>
                       (pl.x # c <=> tw > F(468))
                /\ pl.ls.align = "ALIGN_RIGHT" =>
                       (pl.x # r <=> tw > F(468))
                /\ (pl.ls.align = "ALIGN_CENTER" /\ pl.ls.fontSize = 14
                       /\ Len(pl.ls.text) = 5) => pl.x = 1154

\* a centered line at 288.5, a right-aligned line exactly as wide as the
\* usable width, and a clamped right-aligned line, one of them at the bottom
C10_Witness ==
    /\ pc = "built" /\ Len(positioned) = 3
    /\ \E k \in 1..3 : /\ positioned[k].ls.align = "ALIGN_CENTER"
                       /\ positioned[k].x = 1154
    /\ \E k \in 1..3 : /\ positioned[k].ls.align = "ALIGN_RIGHT"
                       /\ TextWidth(positioned[k].ls) = F(468)
                       /\ positioned[k].x = F(72)
    /\ \E k \in 1..3 : /\ positioned[k].ls.align = "ALIGN_RIGHT"
                       /\ TextWidth(positioned[k].ls) > F(468)
                       /\ positioned[k].x = F(72)
                       /\ positioned[k].ls.bottomAnchor

-----------------------------------------------------------------------------
(* Properties of the assembled document, read back from the bytes *)

\* the decimal number that starts at position i of s
NumberAt(s, i) == AtoiDigits(s, i, 0)

\* the decimal number that follows the first occurrence of key in s
NumberAfter(s, key) == NumberAt(s, Find(s, key) + Len(key))

StartsAt(s, i, pat) == SubSeq(s, i, i + Len(pat) - 1) = pat

RECURSIVE TotalLen(_, _)
\* total size of the first k strings of a sequence
TotalLen(strs, k) == IF k = 0 THEN 0 ELSE TotalLen(strs, k - 1) + Len(strs[k])

\* the value written after "startxref"
StartXref(buf) == NumberAfter(buf, "startxref\n")

\* position (1-based) of the k-th 20-byte entry of the xref table, k = 0
\* being the free entry: the entries follow the "xref" line and the
\* subsection line
XrefEntryPos(buf, k) ==
    LET sub  == StartXref(buf) + 1 + Len("xref\n")
        rest == SubSeq(buf, sub, Len(buf))
    IN  sub + Find(rest, "\n") + 20 * k

\* C3: for every object i of 1..3+2N the offset in the i-th in-use xref
\* entry is the number of bytes before object i's "i 0 obj" marker (the
\* header, the binary comment and all lower-numbered objects), and the
\* startxref value is the number of bytes before the "xref" keyword.
C3_XrefOffsets ==
    pc = "write" =>
        LET n == 3 + 2 * Len(pages)
        IN  /\ \A k \in 1..n :
                  LET pos == XrefEntryPos(pdf, k)
                      off == NumberAt(pdf, pos)
                  IN  /\ StartsAt(pdf, pos + 10, " 00000 n \n")
                      /\ StartsAt(pdf, off + 1, IntToStr(k) \o " 0 obj\n")
                      /\ off = Len("%PDF-1.4\n") + 6 + TotalLen(objects, k - 1)
            /\ StartsAt(pdf, StartXref(pdf) + 1, "xref\n")
            /\ StartXref(pdf) = Len("%PDF-1.4\n") + 6 + TotalLen(objects, n)
            /\ StartsAt(pdf, XrefEntryPos(pdf, 0), "0000000000 65535 f \n")
            /\ StartsAt(pdf, XrefEntryPos(pdf, n + 1), "trailer\n")

\* a finished three-page document whose last content object lies beyond
\* byte 1000
C3_Witness ==
    /\ pc = "write" /\ Len(pages) = 3
    /\ NumberAt(pdf, XrefEntryPos(pdf, 9)) > 1000
    /\ StartsAt(pdf, NumberAt(pdf, XrefEntryPos(pdf, 9)) + 1, "9 0 obj\n")

\* the object numbers of a run of " k 0 R" references starting at i
RECURSIVE RefsAt(_, _)
RefsAt(s, i) ==
    IF i + 1 <= Len(s) /\ At(s, i) = " " /\ IsDigit(At(s, i + 1))
    THEN LET k == NumberAt(s, i + 1)
             j == i + 1 + Len(IntToStr(k))
         IN  IF StartsAt(s, j, " 0 R") THEN <<k>> \o RefsAt(s, j + 4)
             ELSE <<>>
    ELSE <<>>

\* the object number an object declares in its "k 0 obj" line
ObjectNumber(obj) ==
    IF StartsAt(obj, Len(IntToStr(NumberAt(obj, 1))) + 1, " 0 obj\n")
    THEN NumberAt(obj, 1) ELSE -1

\* the bytes between "stream\n" and "\nendstream", by the declared /Length
StreamBody(obj) ==
    LET from == Find(obj, "stream\n") + Len("stream\n")
    IN  SubSeq(obj, from, from + NumberAfter(obj, "/Length ") - 1)

StreamClosed(obj) ==
    LET from == Find(obj, "stream\n") + Len("stream\n")
        to   == from + NumberAfter(obj, "/Length ")
    IN  SubSeq(obj, to, Len(obj)) = "\nendstream\nendobj\n"

\* C4: for N >= 1 pages the Pages object declares /Count N and Kids
\* 4..3+N in order; page i (0-based) is object 4+i with parent 2, font 3
\* and /Contents 4+N+i, the stream built from pages[i]; no two pages share
\* a content object; there are 3+2N objects and the xref and trailer sizes
\* are 4+2N.
C4_ObjectGraph ==
    LET N == Len(pages)
    IN  /\ pc \in {"header", "objects", "trailer", "write"} =>
            /\ N >= 1
            /\ Len(objects) = 3 + 2 * N
            /\ \A k \in 1..Len(objects) : ObjectNumber(objects[k]) = k
            /\ NumberAfter(objects[1], "/Pages ") = 2
            /\ NumberAfter(objects[2], "/Count ") = N
            /\ RefsAt(objects[2], Find(objects[2], "[") + 1)
                   = [k \in 1..N |-> 3 + k]
            /\ StartsAt(objects[2],
                        Find(objects[2], IntToStr(3 + N) \o " 0 R") + 1
                            + Len(IntToStr(3 + N)) + 3,
                        " ] /Count ")
            /\ \A i \in 0..(N - 1) :
                  LET pg == objects[4 + i]
                      cs == objects[4 + N + i]
                  IN  /\ Find(pg, "/Type /Page\n") # npos
                      /\ NumberAfter(pg, "/Parent ") = 2
                      /\ NumberAfter(pg, "/F1 ") = 3
                      /\ NumberAfter(pg, "/Contents ") = 4 + N + i
                      /\ StreamBody(cs) = BuildPageContent(pages[i + 1])
                      /\ StreamClosed(cs)
            /\ \A i, j \in 0..(N - 1) :
                  i # j => NumberAfter(objects[4 + i], "/Contents ")
                              # NumberAfter(objects[4 + j], "/Contents ")
        /\ pc = "write" =>
            /\ NumberAfter(pdf, "/Size ") = 4 + 2 * N
            /\ NumberAfter(pdf, "xref\n0 ") = 4 + 2 * N

\* three different pages, assembled
C4_Witness ==
    /\ pc = "write" /\ Len(pages) = 3
    /\ pages[1] # pages[2] /\ pages[2] # pages[3] /\ pages[1] # pages[3]
    /\ NumberAfter(objects[6], "/Contents ") = 9
    /\ StreamBody(objects[9]) = BuildPageContent(pages[3])
    /\ StreamBody(objects[7]) = "BT\nET\n"

-----------------------------------------------------------------------------
(* Properties of main *)

UsageError == errMsg = "Usage: layout2pdf <filename>\n"

NoFileActivity == ~inOpened /\ ~outOpened /\ outFile = ""

\* C8 as stated: any argument count other than one positional argument
\* (none, or more than one) is a usage error with exit code 1 and no file
\* activity.
C8_AnyOtherCount ==
    argc # 2 =>
        /\ NoFileActivity
        /\ pc = "exit" => (exitCode = 1 /\ UsageError)

\* C8 amended: without a positional argument (argc < 2) the run is a usage
\* error with exit code 1 and no file activity; with one or more the first
\* names the layout file, further arguments are ignored, and no usage error
\* is reported.
C8_MissingArgument ==
    /\ argc < 2 =>
          /\ NoFileActivity
          /\ pc \in {"start", "exit"}
          /\ pc = "exit" => (exitCode = 1 /\ UsageError)
    /\ argc >= 2 => ~UsageError /\ (pc = "exit" => inputReadable = inOpened)

\* the usage error has been reported
C8_Witness == argc = 1 /\ pc = "exit" /\ exitCode = 1 /\ UsageError

\* the buffer is the whole document
PdfComplete ==
    /\ StartsAt(pdf, 1, "%PDF-1.4\n")
    /\ Len(pdf) >= 6 /\ SubSeq(pdf, Len(pdf) - 5, Len(pdf)) = "%%EOF\n"
    /\ StartsAt(pdf, StartXref(pdf) + 1, "xref\n")

\* C9: a run that fails (argument missing, input not opened, no page
\* parsed, output not opened) ends with exit code 1 and writes no byte to
\* the output file; the output file is opened only after at least one page
\* was parsed and the whole document built in memory; exit code 0 is
\* returned only after the output file was opened and that document written.
C9_FailFast ==
    /\ (pc = "exit" /\ (argc < 2 \/ ~inputReadable \/ pages = <<>>
                           \/ ~outputWritable))
          => (exitCode = 1 /\ outFile = "" /\ ~outOpened /\ errMsg # "")
    /\ pc = "exit" => exitCode \in {0, 1}
    /\ pc # "exit" => (exitCode = -1 /\ outFile = "" /\ ~outOpened)
    /\ exitCode = 1 => outFile = ""
    /\ outOpened => (inOpened /\ pages # <<>> /\ PdfComplete)
    /\ exitCode = 0 => (outOpened /\ PdfComplete /\ outFile = pdf)

\* the document was built and the output file could not be opened
C9_Witness ==
    /\ pc = "exit" /\ exitCode = 1 /\ pages # <<>> /\ ~outputWritable
    /\ PdfComplete /\ outFile = ""

====
